---- MODULE Spec2Model ----
(***************************************************************************)
(* SensorPy: the three Sensirion sensor classes (STC31-C, SHTC3, SPS30)    *)
(* and the SensorManager that coordinates them.                            *)
(*                                                                         *)
(* Every sensor method is an operator from the sensor's state and a driver *)
(* script (the status each C driver command returns) to the new state, the *)
(* exception raised (NoErr when it returns normally) and the driver        *)
(* commands issued.  Every SensorManager method composes those operators   *)
(* the way the Python code calls them, try/except blocks included.         *)
(***************************************************************************)
EXTENDS Integers, Sequences, FiniteSets, TLC

(***************************************************************************)
(* Bounds of the model.                                                    *)
(***************************************************************************)
\* firmware major versions the driver may report: 0..MaxFw
MaxFw == 2
\* the SHTC3 measures one of the samples 0..MaxVal
MaxVal == 1
\* failure statuses are drawn from -MaxErr..-1 and 1
MaxErr == 2

\* argument "not given" (Python None) and version_info = None
None == -1
NoVersion == -1

Status == ((0 - MaxErr)..1)
NonZero == Status \ {0}
FwMajors == 0..MaxFw
\* sample v is v degrees Celsius at HumBase + v percent relative humidity
HumBase == 50
Temperature(v) == v
Humidity(v) == HumBase + v
Samples == 0..MaxVal
\* what a caller may pass for temperature or humidity
OptVals == {None} \cup {Temperature(v) : v \in Samples} \cup {Humidity(v) : v \in Samples}

(***************************************************************************)
(* Driver commands (functions of libsensirion.so).                         *)
(***************************************************************************)
StcInitCmds == {"sensirion_i2c_hal_init", "stc3x_set_binary_gas",
                "stc3x_enable_automatic_self_calibration",
                "stc3x_disable_automatic_self_calibration"}
StcReadCmds == {"stc3x_set_relative_humidity", "stc3x_set_temperature",
                "stc3x_measure_gas_concentration"}
ShtReadCmds == {"sht4x_measure_high_precision", "sht4x_measure_medium_precision",
                "sht4x_measure_lowest_precision"}
SpsInitCmds == {"sensirion_uart_open", "sps30_probe", "sps30_read_version",
                "sps30_get_serial", "sps30_set_fan_auto_cleaning_interval_days",
                "sps30_start_measurement"}
Cmds == StcInitCmds \cup StcReadCmds \cup ShtReadCmds \cup SpsInitCmds \cup
        {"stc3x_init", "stc3x_get_product_id", "stc3x_enter_sleep_mode",
         "stc3x_exit_sleep_mode", "sht4x_init", "sht4x_serial_number",
         "sps30_stop_measurement", "sps30_read_measurement", "sps30_sleep",
         "sps30_wake_up", "sps30_start_manual_fan_cleaning",
         "sensirion_uart_close"}

\* The driver: a script gives the status each command returns when issued.
AllOk == [c \in Cmds |-> 0]

\* the scripts in which the commands of R return any status
Scripts(R) ==
  { [c \in Cmds |-> IF c \in R THEN f[c] ELSE 0] : f \in [R -> Status] }

\* the scripts in which at most one command of R fails: enough for a
\* method that raises at its first failing command
FailFirst(R) ==
  {AllOk} \cup { [c \in Cmds |-> IF c = x THEN st ELSE 0] : x \in R, st \in NonZero }

\* d1 where it fails, d2 elsewhere
Merge(d1, d2) == [c \in Cmds |-> IF d1[c] # 0 THEN d1[c] ELSE d2[c]]

(***************************************************************************)
(* Exceptions.                                                             *)
(***************************************************************************)
NoErr == [kind |-> "none", sensor |-> "", reason |-> "", code |-> 0, operation |-> ""]

InitializationError(sensor, reason, code, operation) ==
  [kind |-> "InitializationError", sensor |-> sensor, reason |-> reason,
   code |-> code, operation |-> operation]

ReadError(sensor, reason, code, operation) ==
  [kind |-> "ReadError", sensor |-> sensor, reason |-> reason,
   code |-> code, operation |-> operation]

ValueError(reason) ==
  [kind |-> "ValueError", sensor |-> "", reason |-> reason, code |-> 0, operation |-> ""]

\* what a sensor method hands back: new state, exception, commands, value
NoVal == [temperature |-> None, relative_humidity |-> None]
Out(s, e, c, v) == [s |-> s, raised |-> e, cmds |-> c, ret |-> v]

(***************************************************************************)
(* STC31-C                                                                 *)
(***************************************************************************)
STC31CSensor(self_calibration) ==
  [initialized |-> FALSE, sleeping |-> FALSE, enable_asc |-> self_calibration]

enable_automatic_self_calibration(s, d) ==
  LET c == "stc3x_enable_automatic_self_calibration" IN
  IF d[c] # 0
  THEN Out(s, ReadError("STC31-C", "Enabling automatic self-calibration failed", d[c], c), <<c>>, NoVal)
  ELSE Out(s, NoErr, <<c>>, NoVal)

disable_automatic_self_calibration(s, d) ==
  LET c == "stc3x_disable_automatic_self_calibration" IN
  IF d[c] # 0
  THEN Out(s, ReadError("STC31-C", "Disabling automatic self-calibration failed", d[c], c), <<c>>, NoVal)
  ELSE Out(s, NoErr, <<c>>, NoVal)

\* initialize() that sets _initialized before the self-calibration step
STC31C_initialize_early_flag(s, d) ==
  LET c1 == "sensirion_i2c_hal_init"
      c2 == "stc3x_init"
      c3 == "stc3x_set_binary_gas"
      asc == IF s.enable_asc THEN enable_automatic_self_calibration(s, d)
                             ELSE disable_automatic_self_calibration(s, d)
  IN
  IF d[c1] # 0
  THEN Out(s, InitializationError("STC31-C", "Failed to initialize I2C interface", d[c1], c1),
           <<c1>>, NoVal)
  ELSE IF d[c3] # 0
  THEN Out(s, InitializationError("STC31-C", "Failed to set binary gas configuration", d[c3], c3),
           <<c1, c2, c3>>, NoVal)
  ELSE IF asc.raised # NoErr
  THEN Out([s EXCEPT !.initialized = TRUE], asc.raised, <<c1, c2, c3>> \o asc.cmds, NoVal)
  ELSE Out([s EXCEPT !.initialized = TRUE, !.sleeping = FALSE], NoErr,
           <<c1, c2, c3>> \o asc.cmds, NoVal)

\* initialize() that reports a failed self-calibration step as an
\* InitializationError of its own
STC31C_initialize_wraps(s, d) ==
  LET c1 == "sensirion_i2c_hal_init"
      c2 == "stc3x_init"
      c3 == "stc3x_set_binary_gas"
      asc == IF s.enable_asc THEN enable_automatic_self_calibration(s, d)
                             ELSE disable_automatic_self_calibration(s, d)
  IN
  IF d[c1] # 0
  THEN Out(s, InitializationError("STC31-C", "Failed to initialize I2C interface", d[c1], c1),
           <<c1>>, NoVal)
  ELSE IF d[c3] # 0
  THEN Out(s, InitializationError("STC31-C", "Failed to set binary gas configuration", d[c3], c3),
           <<c1, c2, c3>>, NoVal)
  ELSE IF asc.raised # NoErr
  THEN Out(s, InitializationError("STC31-C", asc.raised.reason, asc.raised.code,
                                  asc.raised.operation),
           <<c1, c2, c3>> \o asc.cmds, NoVal)
  ELSE Out([s EXCEPT !.initialized = TRUE, !.sleeping = FALSE], NoErr,
           <<c1, c2, c3>> \o asc.cmds, NoVal)

STC31C_initialize(s, d) ==
  LET c1 == "sensirion_i2c_hal_init"
      c2 == "stc3x_init"
      c3 == "stc3x_set_binary_gas"
      asc == IF s.enable_asc THEN enable_automatic_self_calibration(s, d)
                             ELSE disable_automatic_self_calibration(s, d)
  IN
  IF d[c1] # 0
  THEN Out(s, InitializationError("STC31-C", "Failed to initialize I2C interface", d[c1], c1),
           <<c1>>, NoVal)
  ELSE IF d[c3] # 0
  THEN Out(s, InitializationError("STC31-C", "Failed to set binary gas configuration", d[c3], c3),
           <<c1, c2, c3>>, NoVal)
  ELSE IF asc.raised # NoErr
  THEN Out(s, asc.raised, <<c1, c2, c3>> \o asc.cmds, NoVal)
  ELSE Out([s EXCEPT !.initialized = TRUE, !.sleeping = FALSE], NoErr,
           <<c1, c2, c3>> \o asc.cmds, NoVal)

\* a slip of the argument check: 'and' for 'or'
ArgumentMissing_and(temperature, humidity) == temperature = None /\ humidity = None

\* if temperature is None or humidity is None:
ArgumentMissing(temperature, humidity) == temperature = None \/ humidity = None

\* read() that writes the temperature before the humidity
STC31C_read_temperature_first(s, temperature, humidity, d) ==
  LET c1 == "stc3x_set_relative_humidity"
      c2 == "stc3x_set_temperature"
      c3 == "stc3x_measure_gas_concentration"
  IN
  IF ~s.initialized
  THEN Out(s, ReadError("STC31-C", "Sensor not initialized", -1, "read"), <<>>, NoVal)
  ELSE IF ArgumentMissing(temperature, humidity)
  THEN Out(s, ValueError("STC31CSensor.read() requires 'temperature' and 'humidity' values."),
           <<>>, NoVal)
  ELSE IF d[c2] # 0
  THEN Out(s, ReadError("STC31-C", "Failed to set temperature for compensation", d[c2], c2),
           <<c2>>, NoVal)
  ELSE IF d[c1] # 0
  THEN Out(s, ReadError("STC31-C", "Failed to set relative humidity for compensation", d[c1], c1),
           <<c2, c1>>, NoVal)
  ELSE IF d[c3] # 0
  THEN Out(s, ReadError("STC31-C", "Failed to read gas concentration", d[c3], c3),
           <<c2, c1, c3>>, NoVal)
  ELSE Out(s, NoErr, <<c2, c1, c3>>, NoVal)

STC31C_read(s, temperature, humidity, d) ==
  LET c1 == "stc3x_set_relative_humidity"
      c2 == "stc3x_set_temperature"
      c3 == "stc3x_measure_gas_concentration"
  IN
  IF ~s.initialized
  THEN Out(s, ReadError("STC31-C", "Sensor not initialized", -1, "read"), <<>>, NoVal)
  ELSE IF ArgumentMissing(temperature, humidity)
  THEN Out(s, ValueError("STC31CSensor.read() requires 'temperature' and 'humidity' values."),
           <<>>, NoVal)
  ELSE IF d[c1] # 0
  THEN Out(s, ReadError("STC31-C", "Failed to set relative humidity for compensation", d[c1], c1),
           <<c1>>, NoVal)
  ELSE IF d[c2] # 0
  THEN Out(s, ReadError("STC31-C", "Failed to set temperature for compensation", d[c2], c2),
           <<c1, c2>>, NoVal)
  ELSE IF d[c3] # 0
  THEN Out(s, ReadError("STC31-C", "Failed to read gas concentration", d[c3], c3),
           <<c1, c2, c3>>, NoVal)
  ELSE Out(s, NoErr, <<c1, c2, c3>>, NoVal)

STC31C_get_info(s, d) ==
  LET c == "stc3x_get_product_id" IN
  IF d[c] # 0
  THEN Out(s, ReadError("STC31-C", "Failed to retrieve product info", d[c], c), <<c>>, NoVal)
  ELSE Out(s, NoErr, <<c>>, NoVal)

STC31C_sleep(s, d) ==
  LET c == "stc3x_enter_sleep_mode" IN
  IF d[c] # 0
  THEN Out(s, ReadError("STC31-C", "Entering sleep mode failed", d[c], c), <<c>>, NoVal)
  ELSE Out([s EXCEPT !.sleeping = TRUE], NoErr, <<c>>, NoVal)

\* a wake_up that forgets to clear the flag
STC31C_wake_up_keeps_flag(s, d) ==
  LET c == "stc3x_exit_sleep_mode" IN
  IF d[c] # 0
  THEN Out(s, ReadError("STC31-C", "Exiting sleep mode failed", d[c], c), <<c>>, NoVal)
  ELSE Out(s, NoErr, <<c>>, NoVal)

STC31C_wake_up(s, d) ==
  LET c == "stc3x_exit_sleep_mode" IN
  IF d[c] # 0
  THEN Out(s, ReadError("STC31-C", "Exiting sleep mode failed", d[c], c), <<c>>, NoVal)
  ELSE Out([s EXCEPT !.sleeping = FALSE], NoErr, <<c>>, NoVal)

(***************************************************************************)
(* SHTC3                                                                   *)
(***************************************************************************)
SHTC3Sensor == [initialized |-> FALSE]

Modes == {"high", "medium", "lowest", "low"}

SHTC3_initialize(s, d) ==
  Out([s EXCEPT !.initialized = TRUE], NoErr, <<"sht4x_init">>, NoVal)

SHTC3_read(s, mode, d, v) ==
  LET c == IF mode = "high" THEN "sht4x_measure_high_precision"
           ELSE IF mode = "medium" THEN "sht4x_measure_medium_precision"
           ELSE "sht4x_measure_lowest_precision"
  IN
  IF ~s.initialized
  THEN Out(s, ReadError("SHTC3", "Sensor not initialized", -1, "read"), <<>>, NoVal)
  ELSE IF mode \notin {"high", "medium", "lowest"}
  THEN Out(s, ValueError("Invalid mode. Choose 'high', 'medium', or 'lowest'."), <<>>, NoVal)
  ELSE IF d[c] # 0
  THEN Out(s, ReadError("SHTC3", "Failed to read temperature/humidity", d[c], c), <<c>>, NoVal)
  ELSE Out(s, NoErr, <<c>>, [temperature |-> Temperature(v), relative_humidity |-> Humidity(v)])

SHTC3_get_info(s, d) ==
  LET c == "sht4x_serial_number" IN
  IF ~s.initialized
  THEN Out(s, ReadError("SHTC3", "Sensor not initialized", -1, "get_info"), <<>>, NoVal)
  ELSE IF d[c] # 0
  THEN Out(s, ReadError("SHTC3", "Failed to retrieve serial number", d[c], c), <<c>>, NoVal)
  ELSE Out(s, NoErr, <<c>>, NoVal)

SHTC3_sleep(s, d) == Out(s, NoErr, <<>>, NoVal)

SHTC3_wake_up(s, d) == Out(s, NoErr, <<>>, NoVal)

(***************************************************************************)
(* SPS30                                                                   *)
(***************************************************************************)
SPS30Sensor ==
  [initialized |-> FALSE, uart_open |-> FALSE, measurement_started |-> FALSE,
   sleeping |-> FALSE, version_info |-> NoVersion]

\* SensorManager passes auto_clean_days=4
AutoCleanDays == 4

\* initialize() without its last statement, self._sleeping = False
SPS30_initialize_keeps_sleeping(s, auto_clean_days, d, fw) ==
  LET c1 == "sensirion_uart_open"
      c2 == "sps30_probe"
      c3 == "sps30_read_version"
      c4 == "sps30_get_serial"
      c5 == "sps30_set_fan_auto_cleaning_interval_days"
      c6 == "sps30_start_measurement"
      s1 == [s EXCEPT !.uart_open = TRUE]
      s3 == [s1 EXCEPT !.version_info = fw]
      s6 == [s3 EXCEPT !.measurement_started = TRUE]
  IN
  IF d[c1] # 0
  THEN Out(s, InitializationError("SPS30", "Failed to initialize UART", d[c1], c1), <<c1>>, NoVal)
  ELSE IF d[c2] # 0
  THEN Out(s1, InitializationError("SPS30", "Failed to probe SPS30 sensor", d[c2], c2),
           <<c1, c2>>, NoVal)
  ELSE IF d[c3] # 0
  THEN Out(s1, ReadError("SPS30", "Failed to retrieve version info", d[c3], c3),
           <<c1, c2, c3>>, NoVal)
  ELSE IF d[c4] # 0
  THEN Out(s3, ReadError("SPS30", "Failed to retrieve serial number", d[c4], c4),
           <<c1, c2, c3, c4>>, NoVal)
  ELSE IF d[c5] # 0
  THEN Out(s3, ReadError("SPS30", "Could not set auto-clean interval", d[c5], c5),
           <<c1, c2, c3, c4, c5>>, NoVal)
  ELSE IF d[c6] # 0
  THEN Out(s3, InitializationError("SPS30", "Failed to start measurements", d[c6], c6),
           <<c1, c2, c3, c4, c5, c6>>, NoVal)
  ELSE Out([s6 EXCEPT !.initialized = TRUE], NoErr,
           <<c1, c2, c3, c4, c5, c6>>, NoVal)

\* initialize() that looks at the probe status only after reading the version
SPS30_initialize_probe_checked_late(s, auto_clean_days, d, fw) ==
  LET c1 == "sensirion_uart_open"
      c2 == "sps30_probe"
      c3 == "sps30_read_version"
      c4 == "sps30_get_serial"
      c5 == "sps30_set_fan_auto_cleaning_interval_days"
      c6 == "sps30_start_measurement"
      s1 == [s EXCEPT !.uart_open = TRUE]
      s3 == [s1 EXCEPT !.version_info = fw]
      s6 == [s3 EXCEPT !.measurement_started = TRUE]
  IN
  IF d[c1] # 0
  THEN Out(s, InitializationError("SPS30", "Failed to initialize UART", d[c1], c1), <<c1>>, NoVal)
  ELSE IF d[c2] # 0
  THEN Out(s1, InitializationError("SPS30", "Failed to probe SPS30 sensor", d[c2], c2),
           <<c1, c2, c3>>, NoVal)
  ELSE IF d[c3] # 0
  THEN Out(s1, ReadError("SPS30", "Failed to retrieve version info", d[c3], c3),
           <<c1, c2, c3>>, NoVal)
  ELSE IF d[c4] # 0
  THEN Out(s3, ReadError("SPS30", "Failed to retrieve serial number", d[c4], c4),
           <<c1, c2, c3, c4>>, NoVal)
  ELSE IF d[c5] # 0
  THEN Out(s3, ReadError("SPS30", "Could not set auto-clean interval", d[c5], c5),
           <<c1, c2, c3, c4, c5>>, NoVal)
  ELSE IF d[c6] # 0
  THEN Out(s3, InitializationError("SPS30", "Failed to start measurements", d[c6], c6),
           <<c1, c2, c3, c4, c5, c6>>, NoVal)
  ELSE Out([s6 EXCEPT !.initialized = TRUE, !.sleeping = FALSE], NoErr,
           <<c1, c2, c3, c4, c5, c6>>, NoVal)

SPS30_initialize(s, auto_clean_days, d, fw) ==
  LET c1 == "sensirion_uart_open"
      c2 == "sps30_probe"
      c3 == "sps30_read_version"
      c4 == "sps30_get_serial"
      c5 == "sps30_set_fan_auto_cleaning_interval_days"
      c6 == "sps30_start_measurement"
      s1 == [s EXCEPT !.uart_open = TRUE]
      s3 == [s1 EXCEPT !.version_info = fw]
      s6 == [s3 EXCEPT !.measurement_started = TRUE]
  IN
  IF d[c1] # 0
  THEN Out(s, InitializationError("SPS30", "Failed to initialize UART", d[c1], c1), <<c1>>, NoVal)
  ELSE IF d[c2] # 0
  THEN Out(s1, InitializationError("SPS30", "Failed to probe SPS30 sensor", d[c2], c2),
           <<c1, c2>>, NoVal)
  ELSE IF d[c3] # 0
  THEN Out(s1, ReadError("SPS30", "Failed to retrieve version info", d[c3], c3),
           <<c1, c2, c3>>, NoVal)
  ELSE IF d[c4] # 0
  THEN Out(s3, ReadError("SPS30", "Failed to retrieve serial number", d[c4], c4),
           <<c1, c2, c3, c4>>, NoVal)
  ELSE IF d[c5] # 0
  THEN Out(s3, ReadError("SPS30", "Could not set auto-clean interval", d[c5], c5),
           <<c1, c2, c3, c4, c5>>, NoVal)
  ELSE IF d[c6] # 0
  THEN Out(s3, InitializationError("SPS30", "Failed to start measurements", d[c6], c6),
           <<c1, c2, c3, c4, c5, c6>>, NoVal)
  ELSE Out([s6 EXCEPT !.initialized = TRUE, !.sleeping = FALSE], NoErr,
           <<c1, c2, c3, c4, c5, c6>>, NoVal)

\* stop_measurement() without its guard
SPS30_stop_measurement_unguarded(s, d) ==
  LET c == "sps30_stop_measurement" IN
  IF d[c] # 0
  THEN Out(s, ReadError("SPS30", "Stopping measurement failed", d[c], c), <<c>>, NoVal)
  ELSE Out([s EXCEPT !.measurement_started = FALSE], NoErr, <<c>>, NoVal)

SPS30_stop_measurement(s, d) ==
  LET c == "sps30_stop_measurement" IN
  IF ~s.measurement_started
  THEN Out(s, ReadError("SPS30", "Cannot stop measurement: measurement not started", -1, c),
           <<>>, NoVal)
  ELSE IF d[c] # 0
  THEN Out(s, ReadError("SPS30", "Stopping measurement failed", d[c], c), <<c>>, NoVal)
  ELSE Out([s EXCEPT !.measurement_started = FALSE], NoErr, <<c>>, NoVal)

\* read() without the measurement half of its guard
SPS30_read_unguarded(s, d) ==
  LET c == "sps30_read_measurement" IN
  IF ~s.initialized
  THEN Out(s, ReadError("SPS30",
                "Cannot read data: sensor not properly initialized or measurement not started",
                -1, "read"), <<>>, NoVal)
  ELSE IF d[c] < 0
  THEN IF d[c] = -1
       THEN Out(s, ReadError("SPS30", "Not enough data available (the sensor needs more time).",
                             d[c], c), <<c>>, NoVal)
       ELSE Out(s, ReadError("SPS30", "Failed to read particulate matter data", d[c], c),
                <<c>>, NoVal)
  ELSE Out(s, NoErr, <<c>>, NoVal)

SPS30_read(s, d) ==
  LET c == "sps30_read_measurement" IN
  IF ~s.initialized \/ ~s.measurement_started
  THEN Out(s, ReadError("SPS30",
                "Cannot read data: sensor not properly initialized or measurement not started",
                -1, "read"), <<>>, NoVal)
  ELSE IF d[c] < 0
  THEN IF d[c] = -1
       THEN Out(s, ReadError("SPS30", "Not enough data available (the sensor needs more time).",
                             d[c], c), <<c>>, NoVal)
       ELSE Out(s, ReadError("SPS30", "Failed to read particulate matter data", d[c], c),
                <<c>>, NoVal)
  ELSE Out(s, NoErr, <<c>>, NoVal)

\* a slip of the firmware gate: off by one
SleepUnsupported_below1(s) == s.version_info = NoVersion \/ s.version_info < 1

\* the firmware gate of sleep() and wake_up(): TRUE when they return at once
SleepUnsupported(s) == s.version_info = NoVersion \/ s.version_info < 2

\* sleep() without its measurement guard
SPS30_sleep_unguarded(s, d) ==
  LET c == "sps30_sleep" IN
  IF SleepUnsupported(s)
  THEN Out(s, NoErr, <<>>, NoVal)
  ELSE IF ~s.initialized
  THEN Out(s, ReadError("SPS30", "Sensor not initialized", -1, "sleep"), <<>>, NoVal)
  ELSE IF d[c] # 0
  THEN Out(s, ReadError("SPS30", "Entering sleep failed", d[c], c), <<c>>, NoVal)
  ELSE Out([s EXCEPT !.sleeping = TRUE], NoErr, <<c>>, NoVal)

SPS30_sleep(s, d) ==
  LET c == "sps30_sleep" IN
  IF SleepUnsupported(s)
  THEN Out(s, NoErr, <<>>, NoVal)
  ELSE IF ~s.initialized
  THEN Out(s, ReadError("SPS30", "Sensor not initialized", -1, "sleep"), <<>>, NoVal)
  ELSE IF s.measurement_started
  THEN Out(s, ReadError("SPS30", "Stop measurement before sleeping", -1, "sleep"), <<>>, NoVal)
  ELSE IF d[c] # 0
  THEN Out(s, ReadError("SPS30", "Entering sleep failed", d[c], c), <<c>>, NoVal)
  ELSE Out([s EXCEPT !.sleeping = TRUE], NoErr, <<c>>, NoVal)

\* wake_up() that clears _sleeping before it looks at the driver's status
SPS30_wake_up_clears_first(s, d) ==
  LET c == "sps30_wake_up" IN
  IF SleepUnsupported(s)
  THEN Out(s, NoErr, <<>>, NoVal)
  ELSE IF ~s.initialized
  THEN Out(s, ReadError("SPS30", "Sensor not initialized", -1, "wake_up"), <<>>, NoVal)
  ELSE IF ~s.sleeping
  THEN Out(s, ReadError("SPS30", "Sensor is not sleeping", -1, "wake_up"), <<>>, NoVal)
  ELSE IF d[c] # 0
  THEN Out([s EXCEPT !.sleeping = FALSE],
           ReadError("SPS30", "Waking up from sleep failed", d[c], c), <<c>>, NoVal)
  ELSE Out([s EXCEPT !.sleeping = FALSE], NoErr, <<c>>, NoVal)

SPS30_wake_up(s, d) ==
  LET c == "sps30_wake_up" IN
  IF SleepUnsupported(s)
  THEN Out(s, NoErr, <<>>, NoVal)
  ELSE IF ~s.initialized
  THEN Out(s, ReadError("SPS30", "Sensor not initialized", -1, "wake_up"), <<>>, NoVal)
  ELSE IF ~s.sleeping
  THEN Out(s, ReadError("SPS30", "Sensor is not sleeping", -1, "wake_up"), <<>>, NoVal)
  ELSE IF d[c] # 0
  THEN Out(s, ReadError("SPS30", "Waking up from sleep failed", d[c], c), <<c>>, NoVal)
  ELSE Out([s EXCEPT !.sleeping = FALSE], NoErr, <<c>>, NoVal)

SPS30_start_manual_fan_cleaning(s, d) ==
  LET c == "sps30_start_manual_fan_cleaning" IN
  IF ~s.measurement_started
  THEN Out(s, ReadError("SPS30", "Cannot perform manual fan cleaning: measurement not started",
                        -1, c), <<>>, NoVal)
  ELSE IF d[c] # 0
  THEN Out(s, ReadError("SPS30", "Manual fan cleaning failed", d[c], c), <<c>>, NoVal)
  ELSE Out(s, NoErr, <<c>>, NoVal)

\* close() that forgets to clear _uart_open
SPS30_close_keeps_flag(s, d) ==
  LET c == "sensirion_uart_close" IN
  IF d[c] # 0
  THEN Out(s, ReadError("SPS30", "Failed to close UART", d[c], c), <<c>>, NoVal)
  ELSE Out(s, NoErr, <<c>>, NoVal)

\* close() that clears _uart_open before it looks at the status
SPS30_close_clears_first(s, d) ==
  LET c == "sensirion_uart_close" IN
  IF d[c] # 0
  THEN Out([s EXCEPT !.uart_open = FALSE], ReadError("SPS30", "Failed to close UART", d[c], c),
           <<c>>, NoVal)
  ELSE Out([s EXCEPT !.uart_open = FALSE], NoErr, <<c>>, NoVal)

SPS30_close(s, d) ==
  LET c == "sensirion_uart_close" IN
  IF d[c] # 0
  THEN Out(s, ReadError("SPS30", "Failed to close UART", d[c], c), <<c>>, NoVal)
  ELSE Out([s EXCEPT !.uart_open = FALSE], NoErr, <<c>>, NoVal)

SPS30_get_info(s, d) == Out(s, NoErr, <<>>, NoVal)

(***************************************************************************)
(* SensorManager                                                           *)
(*                                                                         *)
(* A manager method threads a record r through its statements:             *)
(*   w      the three sensor objects                                       *)
(*   raised the exception in flight (NoErr when none)                      *)
(*   cmds   the driver commands issued so far                              *)
(*   calls  the methods called so far, each with its arguments, its        *)
(*          return value and the exception it raised                       *)
(*   log    the logger.debug / warning / error records written             *)
(*   keys   the keys of the result dictionary                              *)
(***************************************************************************)
Begin(w) ==
  [w |-> w, raised |-> NoErr, cmds |-> <<>>, calls |-> <<>>, log |-> <<>>, keys |-> {}]

\* self.<name>.<method>(args), the method's outcome being out
Call(r, name, method, out, args) ==
  [r EXCEPT !.w[name] = out.s,
            !.raised = out.raised,
            !.cmds = @ \o out.cmds,
            !.calls = Append(@, [s |-> name, m |-> method, err |-> out.raised,
                                 args |-> args, ret |-> out.ret])]

Log(r, level, text, e) ==
  [r EXCEPT !.log = Append(@, [level |-> level, text |-> text, err |-> e])]

\* an assignment to the result dictionary that is lost
Store_lost(r, key) == r

\* result[key] = <value of the call that just returned>
Store(r, key) == IF r.raised = NoErr THEN [r EXCEPT !.keys = @ \cup {key}] ELSE r

\* except NotImplementedError: logger.debug(text)
ExceptNotImplemented(r, text) ==
  IF r.raised.kind = "NotImplementedError"
  THEN [Log(r, "debug", text, r.raised) EXCEPT !.raised = NoErr]
  ELSE r

\* a handler that logs and lets the exception go on
ExceptException_reraise(r, text) ==
  IF r.raised # NoErr THEN Log(r, "warning", text, r.raised) ELSE r

\* except Exception as e: logger.warning(text, str(e))
ExceptException(r, text) ==
  IF r.raised # NoErr
  THEN [Log(r, "warning", text, r.raised) EXCEPT !.raised = NoErr]
  ELSE r

\* a test that takes a reading of zero degrees for no reading
Truthy_zero_false(data) == data # NoVal /\ data.temperature # 0

\* if shtc3_data: (None is false, a dictionary with two entries is true)
Truthy(data) == data # NoVal

\* the constructor without the dependency rule
EnforceDependency_off(enable_stc31c, enable_shtc3) == enable_shtc3

\* lines 47-52: SHTC3 is enabled whenever STC31-C is
EnforceDependency(enable_stc31c, enable_shtc3) ==
  IF enable_stc31c /\ ~enable_shtc3 THEN TRUE ELSE enable_shtc3

\* shutdown() with close() outside any try block
shutdown_bare_close(m, r0, d) ==
  LET r  == [r0 EXCEPT !.calls = Append(@, [s |-> "manager", m |-> "shutdown", err |-> NoErr,
                                             args |-> NoVal, ret |-> NoVal])]
      ra == ExceptException(
              IF r.w.sps30.measurement_started
              THEN Call(r, "sps30", "stop_measurement",
                        SPS30_stop_measurement(r.w.sps30, d), NoVal)
              ELSE r,
              "Failed to stop SPS30 measurement")
      rb == Call(ra, "sps30", "close", SPS30_close(ra.w.sps30, d), NoVal)
  IN
  IF m.enable_sps30 /\ m.sps30_obj
  THEN (IF ra.raised # NoErr THEN ra ELSE rb)
  ELSE r

\* shutdown() with stop_measurement() and close() in one try block
shutdown_one_try(m, r0, d) ==
  LET r  == [r0 EXCEPT !.calls = Append(@, [s |-> "manager", m |-> "shutdown", err |-> NoErr,
                                             args |-> NoVal, ret |-> NoVal])]
      ra == IF r.w.sps30.measurement_started
            THEN Call(r, "sps30", "stop_measurement",
                      SPS30_stop_measurement(r.w.sps30, d), NoVal)
            ELSE r
      rb == IF ra.raised # NoErr THEN ra
            ELSE Call(ra, "sps30", "close", SPS30_close(ra.w.sps30, d), NoVal)
  IN
  IF m.enable_sps30 /\ m.sps30_obj
  THEN ExceptException(rb, "Failed to shut down SPS30")
  ELSE r

\* shutdown() that stops the measurement without looking at the flag
shutdown_always_stop(m, r0, d) ==
  LET r  == [r0 EXCEPT !.calls = Append(@, [s |-> "manager", m |-> "shutdown", err |-> NoErr,
                                             args |-> NoVal, ret |-> NoVal])]
      ra == ExceptException(
              Call(r, "sps30", "stop_measurement",
                   SPS30_stop_measurement(r.w.sps30, d), NoVal),
              "Failed to stop SPS30 measurement")
      rb == ExceptException(
              Call(ra, "sps30", "close", SPS30_close(ra.w.sps30, d), NoVal),
              "Failed to close SPS30 connection")
  IN
  IF m.enable_sps30 /\ m.sps30_obj
  THEN (IF ra.raised # NoErr THEN ra ELSE rb)
  ELSE r

shutdown(m, r0, d) ==
  LET r  == [r0 EXCEPT !.calls = Append(@, [s |-> "manager", m |-> "shutdown", err |-> NoErr,
                                             args |-> NoVal, ret |-> NoVal])]
      ra == ExceptException(
              IF r.w.sps30.measurement_started
              THEN Call(r, "sps30", "stop_measurement",
                        SPS30_stop_measurement(r.w.sps30, d), NoVal)
              ELSE r,
              "Failed to stop SPS30 measurement")
      rb == ExceptException(
              Call(ra, "sps30", "close", SPS30_close(ra.w.sps30, d), NoVal),
              "Failed to close SPS30 connection")
  IN
  IF m.enable_sps30 /\ m.sps30_obj
  THEN (IF ra.raised # NoErr THEN ra ELSE rb)
  ELSE r

\* a handler for InitializationError alone
CtorCatches_init_only(e) == e.kind = "InitializationError"

\* except (InitializationError, ReadError) as e:
CtorCatches(e) == e.kind \in {"InitializationError", "ReadError"}

\* the constructor initializing the SHTC3 before the STC31-C
SensorManager_init_shtc3_first(m, w, d, fw) ==
  LET r0 == Begin(w)
      r1 == IF m.enable_shtc3
            THEN Call(r0, "shtc3", "initialize", SHTC3_initialize(r0.w.shtc3, d), NoVal)
            ELSE r0
      r2 == IF r1.raised # NoErr THEN r1
            ELSE IF m.enable_stc31c
            THEN Call(r1, "stc31c", "initialize", STC31C_initialize(r1.w.stc31c, d), NoVal)
            ELSE r1
      r3 == IF r2.raised # NoErr THEN r2
            ELSE IF m.enable_sps30
            THEN Call(r2, "sps30", "initialize",
                      SPS30_initialize(r2.w.sps30, AutoCleanDays, d, fw), NoVal)
            ELSE r2
      sh == shutdown(m, [r3 EXCEPT !.raised = NoErr], d)
  IN
  IF r3.raised # NoErr /\ CtorCatches(r3.raised)
  THEN (IF sh.raised # NoErr THEN sh ELSE [sh EXCEPT !.raised = r3.raised])
  ELSE r3

\* the constructor initializing every enabled sensor before it reports the
\* first failure
SensorManager_init_continues(m, w, d, fw) ==
  LET r0 == Begin(w)
      r1 == IF m.enable_stc31c
            THEN Call(r0, "stc31c", "initialize", STC31C_initialize(r0.w.stc31c, d), NoVal)
            ELSE r0
      c2 == IF m.enable_shtc3
            THEN Call(r1, "shtc3", "initialize", SHTC3_initialize(r1.w.shtc3, d), NoVal)
            ELSE r1
      r2 == IF r1.raised # NoErr THEN [c2 EXCEPT !.raised = r1.raised] ELSE c2
      c3 == IF m.enable_sps30
            THEN Call(r2, "sps30", "initialize",
                      SPS30_initialize(r2.w.sps30, AutoCleanDays, d, fw), NoVal)
            ELSE r2
      r3 == IF r2.raised # NoErr THEN [c3 EXCEPT !.raised = r2.raised] ELSE c3
      sh == shutdown(m, [r3 EXCEPT !.raised = NoErr], d)
  IN
  IF r3.raised # NoErr /\ CtorCatches(r3.raised)
  THEN (IF sh.raised # NoErr THEN sh ELSE [sh EXCEPT !.raised = r3.raised])
  ELSE r3

\* SensorManager.__init__ after the flags and the sensor objects are set
SensorManager_init(m, w, d, fw) ==
  LET r0 == Begin(w)
      r1 == IF m.enable_stc31c
            THEN Call(r0, "stc31c", "initialize", STC31C_initialize(r0.w.stc31c, d), NoVal)
            ELSE r0
      r2 == IF r1.raised # NoErr THEN r1
            ELSE IF m.enable_shtc3
            THEN Call(r1, "shtc3", "initialize", SHTC3_initialize(r1.w.shtc3, d), NoVal)
            ELSE r1
      r3 == IF r2.raised # NoErr THEN r2
            ELSE IF m.enable_sps30
            THEN Call(r2, "sps30", "initialize",
                      SPS30_initialize(r2.w.sps30, AutoCleanDays, d, fw), NoVal)
            ELSE r2
      sh == shutdown(m, [r3 EXCEPT !.raised = NoErr], d)
  IN
  IF r3.raised # NoErr /\ CtorCatches(r3.raised)
  THEN (IF sh.raised # NoErr THEN sh ELSE [sh EXCEPT !.raised = r3.raised])
  ELSE r3

get_all_info(m, w, d) ==
  LET r0 == Begin(w)
      r1 == IF m.enable_stc31c
            THEN Store(Call(r0, "stc31c", "get_info", STC31C_get_info(r0.w.stc31c, d), NoVal),
                       "stc31c")
            ELSE r0
      r2 == IF r1.raised # NoErr THEN r1
            ELSE IF m.enable_shtc3
            THEN Store(Call(r1, "shtc3", "get_info", SHTC3_get_info(r1.w.shtc3, d), NoVal),
                       "shtc3")
            ELSE r1
      r3 == IF r2.raised # NoErr THEN r2
            ELSE IF m.enable_sps30
            THEN Store(Call(r2, "sps30", "get_info", SPS30_get_info(r2.w.sps30, d), NoVal),
                       "sps30")
            ELSE r2
  IN r3

\* read_all with the two compensation arguments exchanged
read_all_swapped(m, w, d, v) ==
  LET r0 == Begin(w)
      sht == SHTC3_read(r0.w.shtc3, "high", d, v)
      r1 == IF m.enable_shtc3
            THEN Store(Call(r0, "shtc3", "read", sht, NoVal), "shtc3")
            ELSE r0
      shtc3_data == IF m.enable_shtc3 THEN sht.ret ELSE NoVal
      passed == [temperature |-> shtc3_data.relative_humidity,
                 relative_humidity |-> shtc3_data.temperature]
      r2 == IF r1.raised # NoErr THEN r1
            ELSE IF m.enable_stc31c
            THEN IF Truthy(shtc3_data)
                 THEN Store(Call(r1, "stc31c", "read",
                                 STC31C_read(r1.w.stc31c, passed.temperature,
                                             passed.relative_humidity, d),
                                 passed),
                            "stc31c")
                 ELSE Log(r1, "error",
                          "Cannot read STC31C without SHTC3 data. Skipping STC31C reading.", NoErr)
            ELSE r1
      r3 == IF r2.raised # NoErr THEN r2
            ELSE IF m.enable_sps30
            THEN Store(Call(r2, "sps30", "read", SPS30_read(r2.w.sps30, d), NoVal), "sps30")
            ELSE r2
  IN r3

read_all(m, w, d, v) ==
  LET r0 == Begin(w)
      sht == SHTC3_read(r0.w.shtc3, "high", d, v)
      r1 == IF m.enable_shtc3
            THEN Store(Call(r0, "shtc3", "read", sht, NoVal), "shtc3")
            ELSE r0
      shtc3_data == IF m.enable_shtc3 THEN sht.ret ELSE NoVal
      r2 == IF r1.raised # NoErr THEN r1
            ELSE IF m.enable_stc31c
            THEN IF Truthy(shtc3_data)
                 THEN Store(Call(r1, "stc31c", "read",
                                 STC31C_read(r1.w.stc31c, shtc3_data.temperature,
                                             shtc3_data.relative_humidity, d),
                                 shtc3_data),
                            "stc31c")
                 ELSE Log(r1, "error",
                          "Cannot read STC31C without SHTC3 data. Skipping STC31C reading.", NoErr)
            ELSE r1
      r3 == IF r2.raised # NoErr THEN r2
            ELSE IF m.enable_sps30
            THEN Store(Call(r2, "sps30", "read", SPS30_read(r2.w.sps30, d), NoVal), "sps30")
            ELSE r2
  IN r3

sleep_all(m, w, d) ==
  LET r0 == Begin(w)
      r1 == IF m.enable_stc31c /\ m.stc31c_obj
            THEN ExceptException(ExceptNotImplemented(
                   Call(r0, "stc31c", "sleep", STC31C_sleep(r0.w.stc31c, d), NoVal),
                   "STC31C sensor does not support sleep mode"),
                   "Failed to put STC31C to sleep")
            ELSE r0
      r2 == IF r1.raised # NoErr THEN r1
            ELSE IF m.enable_shtc3 /\ m.shtc3_obj
            THEN ExceptException(ExceptNotImplemented(
                   Call(r1, "shtc3", "sleep", SHTC3_sleep(r1.w.shtc3, d), NoVal),
                   "SHTC3 sensor does not support sleep mode"),
                   "Failed to put SHTC3 to sleep")
            ELSE r1
      st == IF r2.w.sps30.measurement_started
            THEN Call(r2, "sps30", "stop_measurement",
                      SPS30_stop_measurement(r2.w.sps30, d), NoVal)
            ELSE r2
      sl == IF st.raised # NoErr THEN st
            ELSE Call(st, "sps30", "sleep", SPS30_sleep(st.w.sps30, d), NoVal)
      r3 == IF r2.raised # NoErr THEN r2
            ELSE IF m.enable_sps30 /\ m.sps30_obj
            THEN ExceptException(ExceptNotImplemented(sl,
                   "SPS30 sensor does not support sleep mode"),
                   "Failed to put SPS30 to sleep")
            ELSE r2
  IN r3

wake_up_all(m, w, d) ==
  LET r0 == Begin(w)
      r1 == IF m.enable_stc31c /\ m.stc31c_obj
            THEN ExceptException(ExceptNotImplemented(
                   Call(r0, "stc31c", "wake_up", STC31C_wake_up(r0.w.stc31c, d), NoVal),
                   "STC31C sensor does not support wake-up"),
                   "Failed to wake up STC31C")
            ELSE r0
      r2 == IF r1.raised # NoErr THEN r1
            ELSE IF m.enable_shtc3 /\ m.shtc3_obj
            THEN ExceptException(ExceptNotImplemented(
                   Call(r1, "shtc3", "wake_up", SHTC3_wake_up(r1.w.shtc3, d), NoVal),
                   "SHTC3 sensor does not support wake-up"),
                   "Failed to wake up SHTC3")
            ELSE r1
      r3 == IF r2.raised # NoErr THEN r2
            ELSE IF m.enable_sps30 /\ m.sps30_obj
            THEN ExceptException(ExceptNotImplemented(
                   Call(r2, "sps30", "wake_up", SPS30_wake_up(r2.w.sps30, d), NoVal),
                   "SPS30 sensor does not support wake-up"),
                   "Failed to wake up SPS30")
            ELSE r2
  IN r3

\* lines 47-66 of SensorManager.__init__: the flags and the sensor objects
SensorManager(enable_stc31c, enable_shtc3, enable_sps30) ==
  LET shtc3_on == EnforceDependency(enable_stc31c, enable_shtc3) IN
  [state |-> "constructing",
   enable_stc31c |-> enable_stc31c, enable_shtc3 |-> shtc3_on, enable_sps30 |-> enable_sps30,
   stc31c_obj |-> enable_stc31c, shtc3_obj |-> shtc3_on, sps30_obj |-> enable_sps30]

(***************************************************************************)
(* State.                                                                  *)
(*   stc31c, shtc3, sps30  the sensor objects                              *)
(*   mgr   the SensorManager: "none" before it is constructed, "ok" once   *)
(*         the constructor returned, "failed" once it raised, and          *)
(*         "standalone" when the program uses one sensor class directly   *)
(*         (the *_obj fields tell which sensor objects exist)              *)
(*   last  the last operation called and what the caller saw of it;        *)
(*         repeated marks a shutdown() called right after a shutdown()     *)
(*                                                                         *)
(* A program either constructs one sensor object and calls its methods, or *)
(* constructs a SensorManager.  The SPS30 of a manager is also driven      *)
(* directly (manager.sps30.stop_measurement() ...), since the manager's    *)
(* methods depend on its UART, measurement and sleep flags; the manager's  *)
(* methods read no flag of the STC31-C or SHTC3 that a direct call could   *)
(* change, so those two are driven directly on a standalone object only.   *)
(***************************************************************************)
VARIABLES stc31c, shtc3, sps30, mgr, last

vars == <<stc31c, shtc3, sps30, mgr, last>>

World == [stc31c |-> stc31c, shtc3 |-> shtc3, sps30 |-> sps30]

NoManager(state, which) ==
  [state |-> state,
   enable_stc31c |-> FALSE, enable_shtc3 |-> FALSE, enable_sps30 |-> FALSE,
   stc31c_obj |-> (which = "stc31c"), shtc3_obj |-> (which = "shtc3"),
   sps30_obj |-> (which = "sps30")]

Init ==
  /\ \/ mgr = NoManager("standalone", "stc31c") /\ stc31c \in {STC31CSensor(a) : a \in BOOLEAN}
     \/ mgr \in {NoManager("standalone", "shtc3"), NoManager("standalone", "sps30"),
                 NoManager("none", "")}
        /\ stc31c = STC31CSensor(FALSE)
  /\ shtc3 = SHTC3Sensor
  /\ sps30 = SPS30Sensor
  /\ last = [op |-> "start", repeated |-> FALSE, raised |-> NoErr, cmds |-> <<>>,
             calls |-> <<>>, log |-> <<>>, keys |-> {}, args |-> NoVal, ret |-> NoVal]

\* the caller's view of a sensor method called directly
Direct(op, out, args) ==
  [op |-> op, repeated |-> FALSE, raised |-> out.raised, cmds |-> out.cmds,
   calls |-> <<>>, log |-> <<>>, keys |-> {}, args |-> args, ret |-> out.ret]

\* the caller's view of a SensorManager method
Managed(op, r) ==
  [op |-> op, repeated |-> (op = "shutdown" /\ last.op = "shutdown"), raised |-> r.raised, cmds |-> r.cmds,
   calls |-> r.calls, log |-> r.log, keys |-> r.keys, args |-> NoVal, ret |-> NoVal]

HasStc == mgr.state = "standalone" /\ mgr.stc31c_obj
HasSht == mgr.state = "standalone" /\ mgr.shtc3_obj
HasSps == mgr.state \in {"standalone", "ok"} /\ mgr.sps30_obj

OnStc(op, out, args) ==
  /\ stc31c' = out.s
  /\ last' = Direct(op, out, args)
  /\ UNCHANGED <<shtc3, sps30, mgr>>

OnSht(op, out) ==
  /\ shtc3' = out.s
  /\ last' = Direct(op, out, NoVal)
  /\ UNCHANGED <<stc31c, sps30, mgr>>

OnSps(op, out) ==
  /\ sps30' = out.s
  /\ last' = Direct(op, out, NoVal)
  /\ UNCHANGED <<stc31c, shtc3, mgr>>

OnMgr(op, r) ==
  /\ stc31c' = r.w.stc31c
  /\ shtc3' = r.w.shtc3
  /\ sps30' = r.w.sps30
  /\ last' = Managed(op, r)
  /\ UNCHANGED mgr

(***************************************************************************)
(* The driver scripts each method is run against.                          *)
(***************************************************************************)
OneCmd(c) == FailFirst({c})
StcInitScripts == FailFirst(StcInitCmds)
StcReadScripts == FailFirst(StcReadCmds)
StcInfoScripts == OneCmd("stc3x_get_product_id")
StcSleepScripts == OneCmd("stc3x_enter_sleep_mode")
StcWakeScripts == OneCmd("stc3x_exit_sleep_mode")
StcEnableAscScripts == OneCmd("stc3x_enable_automatic_self_calibration")
StcDisableAscScripts == OneCmd("stc3x_disable_automatic_self_calibration")
ShtReadScripts == FailFirst(ShtReadCmds)
ShtInfoScripts == OneCmd("sht4x_serial_number")
SpsInitScripts == FailFirst(SpsInitCmds)
SpsStopScripts == OneCmd("sps30_stop_measurement")
SpsReadScripts == OneCmd("sps30_read_measurement")
SpsSleepScripts == OneCmd("sps30_sleep")
SpsWakeScripts == OneCmd("sps30_wake_up")
SpsFanScripts == OneCmd("sps30_start_manual_fan_cleaning")
SpsCloseScripts == OneCmd("sensirion_uart_close")
\* the constructor stops at the first initialize that fails, then shutdown
\* closes the UART
CtorScripts ==
  { Merge(d1, d2) : d1 \in FailFirst(StcInitCmds \cup SpsInitCmds),
                    d2 \in Scripts({"sensirion_uart_close"}) }
InfoAllScripts == FailFirst({"stc3x_get_product_id", "sht4x_serial_number"})
ReadAllScripts ==
  FailFirst({"sht4x_measure_high_precision", "sps30_read_measurement"} \cup StcReadCmds)
ShutdownScripts == Scripts({"sps30_stop_measurement", "sensirion_uart_close"})
SleepAllScripts ==
  Scripts({"stc3x_enter_sleep_mode", "sps30_stop_measurement", "sps30_sleep"})
WakeUpAllScripts == Scripts({"stc3x_exit_sleep_mode", "sps30_wake_up"})

(***************************************************************************)
(* Actions: one per public method.                                         *)
(***************************************************************************)
Stc_initialize ==
  HasStc /\ \E d \in StcInitScripts :
    OnStc("STC31C.initialize", STC31C_initialize(stc31c, d), NoVal)

Stc_read ==
  HasStc /\ \E t \in OptVals, h \in OptVals, d \in StcReadScripts :
    OnStc("STC31C.read", STC31C_read(stc31c, t, h, d),
          [temperature |-> t, relative_humidity |-> h])

Stc_get_info ==
  HasStc /\ \E d \in StcInfoScripts :
    OnStc("STC31C.get_info", STC31C_get_info(stc31c, d), NoVal)

Stc_sleep ==
  HasStc /\ \E d \in StcSleepScripts :
    OnStc("STC31C.sleep", STC31C_sleep(stc31c, d), NoVal)

Stc_wake_up ==
  HasStc /\ \E d \in StcWakeScripts :
    OnStc("STC31C.wake_up", STC31C_wake_up(stc31c, d), NoVal)

Stc_enable_asc ==
  HasStc /\ \E d \in StcEnableAscScripts :
    OnStc("STC31C.enable_automatic_self_calibration",
          enable_automatic_self_calibration(stc31c, d), NoVal)

Stc_disable_asc ==
  HasStc /\ \E d \in StcDisableAscScripts :
    OnStc("STC31C.disable_automatic_self_calibration",
          disable_automatic_self_calibration(stc31c, d), NoVal)

Sht_initialize ==
  HasSht /\ OnSht("SHTC3.initialize", SHTC3_initialize(shtc3, AllOk))

Sht_read ==
  HasSht /\ \E mode \in Modes, v \in Samples, d \in ShtReadScripts :
    OnSht("SHTC3.read", SHTC3_read(shtc3, mode, d, v))

Sht_get_info ==
  HasSht /\ \E d \in ShtInfoScripts :
    OnSht("SHTC3.get_info", SHTC3_get_info(shtc3, d))

Sht_sleep ==
  HasSht /\ OnSht("SHTC3.sleep", SHTC3_sleep(shtc3, AllOk))

Sht_wake_up ==
  HasSht /\ OnSht("SHTC3.wake_up", SHTC3_wake_up(shtc3, AllOk))

Sps_initialize ==
  HasSps /\ \E d \in SpsInitScripts, fw \in FwMajors :
    OnSps("SPS30.initialize", SPS30_initialize(sps30, AutoCleanDays, d, fw))

Sps_stop_measurement ==
  HasSps /\ \E d \in SpsStopScripts :
    OnSps("SPS30.stop_measurement", SPS30_stop_measurement(sps30, d))

Sps_read ==
  HasSps /\ \E d \in SpsReadScripts :
    OnSps("SPS30.read", SPS30_read(sps30, d))

Sps_sleep ==
  HasSps /\ \E d \in SpsSleepScripts :
    OnSps("SPS30.sleep", SPS30_sleep(sps30, d))

Sps_wake_up ==
  HasSps /\ \E d \in SpsWakeScripts :
    OnSps("SPS30.wake_up", SPS30_wake_up(sps30, d))

Sps_start_manual_fan_cleaning ==
  HasSps /\ \E d \in SpsFanScripts :
    OnSps("SPS30.start_manual_fan_cleaning", SPS30_start_manual_fan_cleaning(sps30, d))

Sps_close ==
  HasSps /\ \E d \in SpsCloseScripts :
    OnSps("SPS30.close", SPS30_close(sps30, d))

Sps_get_info ==
  HasSps /\ OnSps("SPS30.get_info", SPS30_get_info(sps30, AllOk))

Mgr_init ==
  /\ mgr.state = "none"
  /\ \E asc \in BOOLEAN, e1 \in BOOLEAN, e2 \in BOOLEAN, e3 \in BOOLEAN,
        d \in CtorScripts, fw \in FwMajors :
       LET m == SensorManager(e1, e2, e3)
           w == [stc31c |-> STC31CSensor(asc), shtc3 |-> SHTC3Sensor, sps30 |-> SPS30Sensor]
           r == SensorManager_init(m, w, d, fw)
       IN /\ stc31c' = r.w.stc31c
          /\ shtc3' = r.w.shtc3
          /\ sps30' = r.w.sps30
          /\ mgr' = [m EXCEPT !.state = IF r.raised = NoErr THEN "ok" ELSE "failed"]
          /\ last' = [Managed("SensorManager", r) EXCEPT
                        !.args = [co2_self_calibration |-> asc, enable_stc31c |-> e1,
                                  enable_shtc3 |-> e2, enable_sps30 |-> e3]]

Mgr_get_all_info ==
  /\ mgr.state = "ok"
  /\ \E d \in InfoAllScripts :
       OnMgr("get_all_info", get_all_info(mgr, World, d))

Mgr_read_all ==
  /\ mgr.state = "ok"
  /\ \E d \in ReadAllScripts, v \in Samples :
       OnMgr("read_all", read_all(mgr, World, d, v))

Mgr_shutdown ==
  /\ mgr.state = "ok"
  /\ \E d \in ShutdownScripts :
       OnMgr("shutdown", shutdown(mgr, Begin(World), d))

Mgr_sleep_all ==
  /\ mgr.state = "ok"
  /\ \E d \in SleepAllScripts :
       OnMgr("sleep_all", sleep_all(mgr, World, d))

Mgr_wake_up_all ==
  /\ mgr.state = "ok"
  /\ \E d \in WakeUpAllScripts :
       OnMgr("wake_up_all", wake_up_all(mgr, World, d))

Next ==
  \/ Stc_initialize \/ Stc_read \/ Stc_get_info \/ Stc_sleep \/ Stc_wake_up
  \/ Stc_enable_asc \/ Stc_disable_asc
  \/ Sht_initialize \/ Sht_read \/ Sht_get_info \/ Sht_sleep \/ Sht_wake_up
  \/ Sps_initialize \/ Sps_stop_measurement \/ Sps_read \/ Sps_sleep \/ Sps_wake_up
  \/ Sps_start_manual_fan_cleaning \/ Sps_close \/ Sps_get_info
  \/ Mgr_init \/ Mgr_get_all_info \/ Mgr_read_all \/ Mgr_shutdown
  \/ Mgr_sleep_all \/ Mgr_wake_up_all

Spec == Init /\ [][Next]_vars

(***************************************************************************)
(* Properties.                                                             *)
(***************************************************************************)
\* command c was issued by the last operation
Issued(c) == \E i \in 1..Len(last.cmds) : last.cmds[i] = c
\* how often
TimesIssued(c) == Cardinality({i \in 1..Len(last.cmds) : last.cmds[i] = c})
\* the last operation called method mth of sensor sn
Called(sn, mth) == \E i \in 1..Len(last.calls) : last.calls[i].s = sn /\ last.calls[i].m = mth
\* the last operation logged a swallowed failure of driver command c
LoggedFailureOf(c) ==
  \E i \in 1..Len(last.log) : last.log[i].level = "warning" /\ last.log[i].err.operation = c
AllEnabled == mgr.enable_stc31c /\ mgr.enable_shtc3 /\ mgr.enable_sps30

\* C1: every operation other than initialize, called on a sensor that was
\* never successfully initialized, fails with an error and issues no driver
\* command.  (_initialized is set by a successful initialize only and is never
\* cleared, so a sensor not initialized after the call was not before it.)
C1_UninitializedOperationsFail ==
  /\ (last.op \in {"STC31C.read", "STC31C.get_info", "STC31C.sleep", "STC31C.wake_up"}
        /\ ~stc31c.initialized)
       => (last.raised # NoErr /\ last.cmds = <<>>)
  /\ (last.op \in {"SHTC3.read", "SHTC3.get_info", "SHTC3.sleep", "SHTC3.wake_up"}
        /\ ~shtc3.initialized)
       => (last.raised # NoErr /\ last.cmds = <<>>)
  /\ (last.op \in {"SPS30.read", "SPS30.get_info", "SPS30.sleep", "SPS30.wake_up",
                    "SPS30.stop_measurement"}
        /\ ~sps30.initialized)
       => (last.raised # NoErr /\ last.cmds = <<>>)

\* C2 as claimed: STC31CSensor.read with temperature or humidity absent
\* fails with ValueError and issues no driver command.
C2_MissingArgumentIsValueError ==
  (last.op = "STC31C.read"
     /\ (last.args.temperature = None \/ last.args.relative_humidity = None))
    => (last.raised.kind = "ValueError" /\ last.cmds = <<>>)

\* C2 amended: STC31CSensor.read with temperature or humidity absent issues
\* no driver command and fails: with ValueError on an initialized sensor,
\* with ReadError "Sensor not initialized" on a sensor not initialized (the
\* state check comes first).
C2_MissingArgumentFails ==
  (last.op = "STC31C.read"
     /\ (last.args.temperature = None \/ last.args.relative_humidity = None))
    => /\ last.cmds = <<>>
       /\ stc31c.initialized => last.raised.kind = "ValueError"
       /\ ~stc31c.initialized => (last.raised.kind = "ReadError"
                                   /\ last.raised.reason = "Sensor not initialized")

\* C2 witness: an initialized sensor read with the temperature given and the
\* humidity absent raised ValueError.
C2_Witness ==
  /\ last.op = "STC31C.read"
  /\ stc31c.initialized
  /\ last.args.temperature # None /\ last.args.relative_humidity = None
  /\ last.raised.kind = "ValueError"

\* C3 as claimed: SPS30Sensor.sleep() called while measurement is active
\* raises ReadError and issues no sleep command.  (sleep() never changes
\* _measurement_started, so it is active after the call iff it was before.)
C3_SleepWhileMeasuringRaises ==
  (last.op = "SPS30.sleep" /\ sps30.measurement_started)
    => (last.raised.kind = "ReadError" /\ last.cmds = <<>>)

\* C3 amended: SPS30Sensor.sleep() called while measurement is active issues
\* no sleep command and leaves every flag unchanged (it never stops the
\* measurement); it raises ReadError when the cached firmware major version
\* is 2 or higher and returns normally, as a no-op, when it is below 2.
C3_SleepWhileMeasuring ==
  [][(last'.op = "SPS30.sleep" /\ sps30.measurement_started)
       => /\ last'.cmds = <<>>
          /\ sps30' = sps30
          /\ sps30.version_info >= 2 => (last'.raised.kind = "ReadError"
                                          /\ last'.raised.reason = "Stop measurement before sleeping")
          /\ sps30.version_info < 2 => last'.raised = NoErr]_vars

\* C3 witness: sleep() on firmware 2 or higher with measurement active raised
\* the measurement guard's ReadError.
C3_Witness ==
  /\ last.op = "SPS30.sleep"
  /\ sps30.measurement_started /\ sps30.version_info >= 2
  /\ last.raised.kind = "ReadError"
  /\ last.raised.reason = "Stop measurement before sleeping"

\* C4: with a cached firmware major version below 2, sleep() and wake_up()
\* return normally, issue no driver command and change no flag, in every
\* state; with version 2 or higher a successful sleep() issues the sleep
\* command and sets _sleeping, a successful wake_up() issues the wake-up
\* command and clears it.
C4_FirmwareGate ==
  [][(last'.op \in {"SPS30.sleep", "SPS30.wake_up"})
       => /\ sps30.version_info \in {0, 1}
               => (last'.raised = NoErr /\ last'.cmds = <<>> /\ sps30' = sps30)
          /\ (sps30.version_info >= 2 /\ last'.raised = NoErr /\ last'.op = "SPS30.sleep")
               => (last'.cmds = <<"sps30_sleep">> /\ sps30'.sleeping)
          /\ (sps30.version_info >= 2 /\ last'.raised = NoErr /\ last'.op = "SPS30.wake_up")
               => (last'.cmds = <<"sps30_wake_up">> /\ ~sps30'.sleeping)]_vars

\* C4 witness: sleep() returned normally without a command on firmware 1, on
\* a sensor that is initialized and idle (where firmware 2 would have slept).
C4_Witness ==
  /\ last.op = "SPS30.sleep"
  /\ sps30.version_info = 1
  /\ sps30.initialized /\ ~sps30.measurement_started /\ ~sps30.sleeping
  /\ last.raised = NoErr /\ last.cmds = <<>>

\* C5: whatever flags the constructor is given, the manager has
\* enable_stc31c => enable_shtc3 (with an SHTC3 object); enable_shtc3 is the
\* given flag or forced true by enable_stc31c, the other flags are stored as
\* given.
C5_DependencyEnforced ==
  /\ mgr.enable_stc31c => (mgr.enable_shtc3 /\ mgr.shtc3_obj)
  /\ last.op = "SensorManager"
       => /\ mgr.enable_stc31c = last.args.enable_stc31c
          /\ mgr.enable_sps30 = last.args.enable_sps30
          /\ mgr.enable_shtc3 = (last.args.enable_shtc3 \/ last.args.enable_stc31c)
          /\ mgr.stc31c_obj = mgr.enable_stc31c
          /\ mgr.shtc3_obj = mgr.enable_shtc3
          /\ mgr.sps30_obj = mgr.enable_sps30

\* C5 witness: constructed with enable_stc31c=true, enable_shtc3=false, the
\* manager came out with SHTC3 enabled and initialized.
C5_Witness ==
  /\ last.op = "SensorManager" /\ mgr.state = "ok"
  /\ last.args.enable_stc31c /\ ~last.args.enable_shtc3
  /\ mgr.enable_shtc3 /\ shtc3.initialized

\* C6: with all three sensors enabled, when the STC31-C read raises ReadError
\* during read_all, read_all does not raise, returns the 'shtc3' and 'sps30'
\* entries without 'stc31c', and the SPS30 read is still attempted.
C6_ReadAllIsolatesStc31cFailure ==
  (last.op = "read_all" /\ AllEnabled
     /\ \E i \in 1..Len(last.calls) :
          /\ last.calls[i].s = "stc31c" /\ last.calls[i].m = "read"
          /\ last.calls[i].err.kind = "ReadError")
    => /\ last.raised = NoErr
       /\ last.keys = {"shtc3", "sps30"}
       /\ Called("sps30", "read")

\* C7: a shutdown() called right after a shutdown() does not raise, whatever
\* the driver returns for its stop and close commands, and it issues no
\* stop-measurement command when the first call left the measurement stopped.
C7_SecondShutdown ==
  [][(last.op = "shutdown" /\ last'.op = "shutdown" /\ last'.repeated)
       => /\ last'.raised = NoErr
          /\ ~sps30.measurement_started
               => \A i \in 1..Len(last'.cmds) : last'.cmds[i] # "sps30_stop_measurement"]_vars

\* C7 witness: a second shutdown() in a row whose close command failed on a
\* UART that was already closed, with the measurement stopped; no stop
\* command, no exception.
C7_Witness ==
  /\ last.op = "shutdown" /\ last.repeated
  /\ mgr.enable_sps30 /\ sps30.initialized
  /\ ~sps30.uart_open /\ ~sps30.measurement_started
  /\ LoggedFailureOf("sensirion_uart_close")
  /\ ~Issued("sps30_stop_measurement")
  /\ last.raised = NoErr

\* the initialize calls of the last operation that raised
FailedInits == {i \in 1..Len(last.calls) :
                  last.calls[i].m = "initialize" /\ last.calls[i].err # NoErr}
ShutdownCalls == {i \in 1..Len(last.calls) :
                    last.calls[i].s = "manager" /\ last.calls[i].m = "shutdown"}

\* C8: if the initialize of an enabled sensor fails during construction,
\* shutdown() is invoked exactly once, after it, and the constructor raises
\* the error initialize raised; the constructor returns a manager only when
\* no initialize failed.
C8_ConstructionAtomicOnFailure ==
  last.op = "SensorManager"
    => /\ FailedInits # {}
            => /\ mgr.state = "failed"
               /\ Cardinality(ShutdownCalls) = 1
               /\ \A i \in FailedInits :
                    /\ last.raised = last.calls[i].err
                    /\ \A j \in ShutdownCalls : i < j
       /\ mgr.state = "ok" <=> FailedInits = {}
       /\ mgr.state = "ok" => (last.raised = NoErr /\ ShutdownCalls = {})

\* C8 witness: the SPS30 initialize failed with a ReadError after the other
\* two sensors were initialized; shutdown ran and the ReadError was raised.
C8_Witness ==
  /\ last.op = "SensorManager" /\ mgr.state = "failed"
  /\ stc31c.initialized /\ shtc3.initialized
  /\ last.raised.kind = "ReadError" /\ last.raised.sensor = "SPS30"
  /\ Cardinality(ShutdownCalls) = 1

\* C9 as claimed: when construction fails, the SPS30 UART is not left open.
C9_NoUartLeftOpen ==
  mgr.state = "failed" => ~sps30.uart_open

\* C9 amended: when construction fails with the SPS30 enabled, shutdown
\* issues the UART close command once, as the last command before the error
\* reaches the caller; the UART is left marked open exactly when it was
\* opened during the construction and that close command failed (the failure
\* is logged and swallowed).  With the SPS30 disabled no UART is opened.
C9_UartCloseAttempted ==
  mgr.state = "failed"
    => /\ mgr.enable_sps30
            => /\ TimesIssued("sensirion_uart_close") = 1
               /\ last.cmds[Len(last.cmds)] = "sensirion_uart_close"
               /\ sps30.uart_open <=> /\ Issued("sensirion_uart_open")
                                       /\ last.raised.operation # "sensirion_uart_open"
                                       /\ LoggedFailureOf("sensirion_uart_close")
       /\ ~mgr.enable_sps30 => (~sps30.uart_open /\ ~Issued("sensirion_uart_open"))

\* C9 witness: the probe failed after the UART was opened, and shutdown
\* closed the UART.
C9_Witness ==
  /\ mgr.state = "failed"
  /\ last.raised.operation = "sps30_probe"
  /\ Issued("sensirion_uart_open") /\ Issued("sensirion_uart_close")
  /\ ~sps30.uart_open

Rank(sn) == IF sn = "stc31c" THEN 1 ELSE IF sn = "shtc3" THEN 2 ELSE 3
Enabled(sn) == IF sn = "stc31c" THEN mgr.enable_stc31c
               ELSE IF sn = "shtc3" THEN mgr.enable_shtc3 ELSE mgr.enable_sps30
SensorCalls == {i \in 1..Len(last.calls) : last.calls[i].s # "manager"}

\* C10: sleep_all(), wake_up_all() and shutdown() never raise.  sleep_all and
\* wake_up_all call sleep / wake_up on every enabled sensor and on no other,
\* in the order STC31-C, SHTC3, SPS30, whatever the earlier calls raised
\* (for the SPS30, sleep_all first calls stop_measurement if measurement is
\* active); shutdown, which acts on the SPS30 alone, calls close whatever
\* stop_measurement raised.
C10_BulkOperationsIsolateFaults ==
  /\ last.op \in {"sleep_all", "wake_up_all", "shutdown"} => last.raised = NoErr
  /\ last.op \in {"sleep_all", "wake_up_all"}
       => /\ \A sn \in {"stc31c", "shtc3", "sps30"} :
               Enabled(sn) <=> \E i \in SensorCalls : last.calls[i].s = sn
          /\ \A i \in SensorCalls, j \in SensorCalls :
               i < j => Rank(last.calls[i].s) <= Rank(last.calls[j].s)
          /\ \A i \in SensorCalls :
               last.calls[i].m = (IF last.op = "sleep_all" THEN "sleep" ELSE "wake_up")
                 \/ (last.op = "sleep_all" /\ last.calls[i].s = "sps30"
                       /\ last.calls[i].m = "stop_measurement"
                       /\ (last.calls[i].err = NoErr => Called("sps30", "sleep")))
  /\ last.op = "shutdown"
       => (mgr.enable_sps30 <=> Called("sps30", "close"))

\* C10 witness: in a sleep_all with all three sensors enabled, the STC31-C
\* sleep command failed and the SPS30 was still stopped and put to sleep.
C10_Witness ==
  /\ last.op = "sleep_all" /\ AllEnabled
  /\ LoggedFailureOf("stc3x_enter_sleep_mode")
  /\ Called("shtc3", "sleep") /\ Called("sps30", "stop_measurement")
  /\ Called("sps30", "sleep")
  /\ sps30.sleeping /\ ~stc31c.sleeping
  /\ last.raised = NoErr

\* the index of the call of method mth of sensor sn in the last operation
\* (0 when it was not called; no operation calls the same method twice)
CallIndex(sn, mth) ==
  IF Called(sn, mth)
  THEN CHOOSE i \in 1..Len(last.calls) : last.calls[i].s = sn /\ last.calls[i].m = mth
  ELSE 0

\* C11: in every read_all, the STC31-C read is issued only after the SHTC3
\* read of the same call returned normally, and the temperature and humidity
\* it is given are the values that SHTC3 read returned.
C11_FreshCompensation ==
  (last.op = "read_all" /\ Called("stc31c", "read"))
    => LET i == CallIndex("stc31c", "read")
           j == CallIndex("shtc3", "read")
       IN /\ 0 < j /\ j < i
          /\ last.calls[j].err = NoErr
          /\ last.calls[i].args.temperature = last.calls[j].ret.temperature
          /\ last.calls[i].args.relative_humidity = last.calls[j].ret.relative_humidity

\* C11 witness: a read_all whose SHTC3 read returned the sample 1 (1 degree,
\* HumBase + 1 percent) and whose STC31-C read, given these, succeeded.
C11_Witness ==
  /\ last.op = "read_all" /\ Called("stc31c", "read")
  /\ last.calls[CallIndex("shtc3", "read")].ret = [temperature |-> Temperature(1),
                                                     relative_humidity |-> Humidity(1)]
  /\ last.calls[CallIndex("stc31c", "read")].args.temperature = Temperature(1)
  /\ last.calls[CallIndex("stc31c", "read")].err = NoErr

C13_Shtc3InitializedFirst ==
  (last.op = "SensorManager" /\ Called("stc31c", "initialize"))
    => /\ Called("shtc3", "initialize")
       /\ CallIndex("shtc3", "initialize") < CallIndex("stc31c", "initialize")

\* C13 amended: during construction the enabled sensors are initialized in
\* the fixed order STC31-C, SHTC3, SPS30, each after the one before it
\* succeeded: the STC31-C (which initializes the I2C interface) comes before
\* the SHTC3 it takes its compensation data from.
C13_InitializationOrder ==
  last.op = "SensorManager"
    => LET inits == {i \in 1..Len(last.calls) : last.calls[i].m = "initialize"}
       IN /\ \A i \in inits, j \in inits :
               i < j => /\ Rank(last.calls[i].s) < Rank(last.calls[j].s)
                        /\ last.calls[i].err = NoErr
          /\ \A i \in inits : Enabled(last.calls[i].s)
          /\ mgr.state = "ok"
               => \A sn \in {"stc31c", "shtc3", "sps30"} :
                    Enabled(sn) <=> Called(sn, "initialize")
          /\ Called("shtc3", "initialize") /\ mgr.enable_stc31c
               => /\ Called("stc31c", "initialize")
                  /\ CallIndex("stc31c", "initialize") < CallIndex("shtc3", "initialize")

\* C13 witness: a construction with all three sensors that succeeded, the
\* STC31-C initialized first and the SPS30 last.
C13_Witness ==
  /\ last.op = "SensorManager" /\ mgr.state = "ok" /\ AllEnabled
  /\ CallIndex("stc31c", "initialize") = 1
  /\ CallIndex("shtc3", "initialize") = 2
  /\ CallIndex("sps30", "initialize") = 3

\* C14: SHTC3Sensor.sleep() and wake_up() never return normally; in every
\* state they raise NotImplementedError.
C14_Shtc3SleepUnsupported ==
  last.op \in {"SHTC3.sleep", "SHTC3.wake_up"}
    => last.raised.kind = "NotImplementedError"

\* C15: STC31CSensor.read on a sleeping sensor fails, issues no compensation
\* or measurement command and leaves the sensor sleeping.  (read never
\* changes _sleeping, so the sensor sleeps after the call iff it did before.)
C15_ReadWhileSleepingFails ==
  (last.op = "STC31C.read" /\ stc31c.sleeping)
    => (last.raised # NoErr /\ last.cmds = <<>>)

\* C16: a successful STC31-C sleep() sets _sleeping and a successful
\* wake_up() clears it, so a successful sleep() followed by a successful
\* wake_up() leaves the sensor not sleeping; a sleep() or wake_up() whose
\* driver command fails raises ReadError and changes nothing.  Neither
\* touches any other attribute.
C16_Stc31cSleepWakeFlag ==
  [][/\ last'.op = "STC31C.sleep"
          => /\ last'.cmds = <<"stc3x_enter_sleep_mode">>
             /\ last'.raised = NoErr => stc31c' = [stc31c EXCEPT !.sleeping = TRUE]
             /\ last'.raised # NoErr
                  => /\ last'.raised.kind = "ReadError"
                     /\ last'.raised.operation = "stc3x_enter_sleep_mode"
                     /\ stc31c' = stc31c
     /\ last'.op = "STC31C.wake_up"
          => /\ last'.cmds = <<"stc3x_exit_sleep_mode">>
             /\ last'.raised = NoErr => stc31c' = [stc31c EXCEPT !.sleeping = FALSE]
             /\ last'.raised # NoErr
                  => /\ last'.raised.kind = "ReadError"
                     /\ last'.raised.operation = "stc3x_exit_sleep_mode"
                     /\ stc31c' = stc31c
     /\ (last.op = "STC31C.sleep" /\ last.raised = NoErr
           /\ last'.op = "STC31C.wake_up" /\ last'.raised = NoErr)
          => (stc31c.sleeping /\ ~stc31c'.sleeping)]_vars

\* C16 witness: a wake_up() whose driver command failed on an initialized,
\* sleeping sensor: ReadError, still sleeping.
C16_Witness ==
  /\ last.op = "STC31C.wake_up"
  /\ last.raised.kind = "ReadError"
  /\ stc31c.initialized /\ stc31c.sleeping

\* C17: STC31CSensor.sleep() called on a sensor that is not Ready
\* (initialized and not sleeping), and wake_up() called on one that is not
\* sleeping, fail without issuing the driver command and without changing
\* _sleeping.
C17_Stc31cSleepWakeGuarded ==
  [][/\ (last'.op = "STC31C.sleep" /\ ~(stc31c.initialized /\ ~stc31c.sleeping))
          => /\ last'.raised # NoErr
             /\ last'.cmds = <<>>
             /\ stc31c'.sleeping = stc31c.sleeping
     /\ (last'.op = "STC31C.wake_up" /\ ~stc31c.sleeping)
          => /\ last'.raised # NoErr
             /\ last'.cmds = <<>>
             /\ stc31c'.sleeping = stc31c.sleeping]_vars

\* C18: an SPS30 sleep() that put the sensor to sleep leaves it sleeping
\* with measurement inactive, and the wake_up() that follows leaves it not
\* sleeping with measurement active again.
C18_Sps30WakeRestoresMeasurement ==
  [][(last.op = "SPS30.sleep" /\ last.raised = NoErr /\ Issued("sps30_sleep")
        /\ last'.op = "SPS30.wake_up" /\ last'.raised = NoErr)
       => /\ sps30.sleeping /\ ~sps30.measurement_started
          /\ ~sps30'.sleeping /\ sps30'.measurement_started]_vars

\* C19: when the SHTC3 read fails during a read_all with STC31-C enabled,
\* read_all does not raise: no STC31-C read, neither 'shtc3' nor 'stc31c' in
\* the result, the reason logged, and the SPS30 read attempted if enabled.
C19_ReadAllIsolatesShtc3Failure ==
  (last.op = "read_all" /\ mgr.enable_stc31c /\ Called("shtc3", "read")
     /\ last.calls[CallIndex("shtc3", "read")].err # NoErr)
    => /\ last.raised = NoErr
       /\ ~Called("stc31c", "read")
       /\ last.keys \cap {"shtc3", "stc31c"} = {}
       /\ last.log # <<>>
       /\ mgr.enable_sps30 => Called("sps30", "read")

\* C20: when exactly one enabled sensor's get_info raises during
\* get_all_info, get_all_info does not raise and returns the info of every
\* other enabled sensor, omitting only the key of the one that failed.
C20_GetAllInfoIsolatesFailure ==
  LET failed == {i \in 1..Len(last.calls) : last.calls[i].err # NoErr} IN
  (last.op = "get_all_info" /\ Cardinality(failed) = 1)
    => /\ last.raised = NoErr
       /\ \A sn \in {"stc31c", "shtc3", "sps30"} :
            sn \in last.keys
              <=> (Enabled(sn) /\ \A i \in failed : last.calls[i].s # sn)

\* the outcomes read() can have in the current state of the SPS30, one for
\* each status the read-measurement command can return
ReadOutcomes ==
  { [status |-> d["sps30_read_measurement"], out |-> SPS30_read(sps30, d)] : d \in SpsReadScripts }

\* C21: SPS30Sensor.read() issues the read-measurement command only when the
\* sensor is initialized and measurement is active; in every other state
\* (never initialized, measurement stopped, sleeping) it raises ReadError and
\* issues no driver command.  (read changes no flag, so the flags after the
\* call are the flags before it.)
C21_Sps30ReadGuard ==
  last.op = "SPS30.read"
    => /\ Issued("sps30_read_measurement")
            <=> (sps30.initialized /\ sps30.measurement_started)
       /\ (~sps30.initialized \/ ~sps30.measurement_started \/ sps30.sleeping)
            => /\ last.raised.kind = "ReadError"
               /\ last.raised.operation = "read"
               /\ last.cmds = <<>>
       /\ last.cmds \in {<<>>, <<"sps30_read_measurement">>}

\* C21 witness: a read() on an initialized sensor that is sleeping was
\* refused without a driver command.
C21_Witness ==
  /\ last.op = "SPS30.read"
  /\ sps30.initialized /\ sps30.sleeping
  /\ last.raised.kind = "ReadError" /\ last.cmds = <<>>

\* C22: SPS30Sensor.read() returns a measurement record only when the
\* read-measurement command returns 0; for every nonzero status, negative or
\* positive, it raises ReadError.
C22_NonzeroStatusRaises ==
  \A o \in ReadOutcomes :
    o.out.cmds # <<>>
      => /\ o.out.raised = NoErr <=> o.status = 0
         /\ o.status # 0 => o.out.raised.kind = "ReadError"

\* C23: the insufficient-data status (-1) gives a ReadError with the reason
\* 'not enough data', every other failure status gives a ReadError with a
\* different reason, and each error carries the raw status code.
C23_ReadFailureKinds ==
  \A o \in ReadOutcomes :
    (o.out.cmds # <<>> /\ o.status # 0)
      => /\ o.out.raised.kind = "ReadError"
         /\ o.out.raised.code = o.status
         /\ o.out.raised.reason = "Not enough data available (the sensor needs more time)."
              <=> o.status = -1

\* C24: the SPS30 is never both sleeping and measuring.
C24_NeverSleepingAndMeasuring ==
  sps30.sleeping => ~sps30.measurement_started

\* C24 witness: an initialize() repeated on a sleeping sensor failed and left
\* it as it was, sleeping with measurement inactive.
C24_Witness ==
  /\ last.op = "SPS30.initialize" /\ last.raised # NoErr
  /\ sps30.initialized /\ sps30.sleeping /\ ~sps30.measurement_started

\* C25 as claimed: close() returns normally in every state and leaves the
\* UART marked closed.
C25_CloseAlwaysSucceeds ==
  last.op = "SPS30.close" => (last.raised = NoErr /\ ~sps30.uart_open)

\* C25 amended: close() has no state precondition: in every state it issues
\* the UART close command.  When the command returns 0, close() returns
\* normally, clears _uart_open and changes nothing else, so a close() that
\* follows a successful close() changes nothing; when the command fails,
\* close() raises ReadError with the status and changes nothing.
C25_CloseUnconditional ==
  [][last'.op = "SPS30.close"
       => /\ last'.cmds = <<"sensirion_uart_close">>
          /\ last'.raised = NoErr => sps30' = [sps30 EXCEPT !.uart_open = FALSE]
          /\ last'.raised # NoErr
               => /\ last'.raised.kind = "ReadError"
                  /\ last'.raised.operation = "sensirion_uart_close"
                  /\ last'.raised.code # 0
                  /\ sps30' = sps30
          /\ (last.op = "SPS30.close" /\ last.raised = NoErr /\ last'.raised = NoErr)
               => sps30' = sps30]_vars

\* C25 witness: a close() on a sensor that was never initialized returned
\* normally.
C25_Witness ==
  /\ last.op = "SPS30.close" /\ last.raised = NoErr
  /\ ~sps30.initialized /\ sps30.version_info = NoVersion /\ ~sps30.uart_open

\* C26 as claimed: after shutdown() with the SPS30 enabled the UART is not
\* open.
C26_ShutdownReleasesUart ==
  (last.op = "shutdown" /\ mgr.enable_sps30) => ~sps30.uart_open

\* C26 amended: shutdown() with the SPS30 enabled calls close() once, as its
\* last step, whatever the stop-measurement step did; afterwards the UART is
\* marked open exactly when it was open before and the close command failed
\* (the failure is logged and swallowed).
C26_ShutdownAttemptsClose ==
  [][(last'.op = "shutdown" /\ mgr.enable_sps30)
       => /\ TimesIssued("sensirion_uart_close")' = 1
          /\ last'.cmds[Len(last'.cmds)] = "sensirion_uart_close"
          /\ last'.calls[Len(last'.calls)].s = "sps30"
          /\ last'.calls[Len(last'.calls)].m = "close"
          /\ sps30'.uart_open
               <=> (sps30.uart_open /\ LoggedFailureOf("sensirion_uart_close")')]_vars

\* C26 witness: a shutdown() whose stop-measurement command failed and whose
\* close command succeeded: the UART is closed.
C26_Witness ==
  /\ last.op = "shutdown" /\ mgr.enable_sps30
  /\ LoggedFailureOf("sps30_stop_measurement")
  /\ ~LoggedFailureOf("sensirion_uart_close")
  /\ sps30.measurement_started /\ ~sps30.uart_open

\* the driver commands of SPS30Sensor.initialize, in the order of its steps
Sps30InitSteps ==
  <<"sensirion_uart_open", "sps30_probe", "sps30_read_version", "sps30_get_serial",
    "sps30_set_fan_auto_cleaning_interval_days", "sps30_start_measurement">>

\* the driver commands of STC31CSensor.initialize, in the order of its steps
Stc31cInitSteps(enable_asc) ==
  <<"sensirion_i2c_hal_init", "stc3x_init", "stc3x_set_binary_gas",
    IF enable_asc THEN "stc3x_enable_automatic_self_calibration"
                  ELSE "stc3x_disable_automatic_self_calibration">>

IsPrefix(p, q) == Len(p) <= Len(q) /\ p = SubSeq(q, 1, Len(p))

\* C27: SPS30Sensor.initialize issues its commands in the order open UART,
\* probe, read version, read serial, set auto-clean interval, start
\* measurement, and stops at the first that fails: the error it raises names
\* the last command issued.  A failed UART open raises InitializationError
\* after that one command and changes nothing (_uart_open stays as it was).
C27_Sps30InitializeOrder ==
  [][last'.op = "SPS30.initialize"
       => /\ last'.cmds # <<>> /\ IsPrefix(last'.cmds, Sps30InitSteps)
          /\ last'.raised = NoErr => last'.cmds = Sps30InitSteps
          /\ last'.raised # NoErr
               => /\ last'.raised.operation = last'.cmds[Len(last'.cmds)]
                  /\ last'.raised.code # 0
          /\ last'.raised.operation = "sensirion_uart_open"
               => /\ last'.raised.kind = "InitializationError"
                  /\ last'.cmds = <<"sensirion_uart_open">>
                  /\ sps30' = sps30]_vars

\* C27 witness: an initialize() whose UART open failed: one command,
\* InitializationError, the UART not open.
C27_Witness ==
  /\ last.op = "SPS30.initialize"
  /\ last.raised.kind = "InitializationError"
  /\ last.raised.operation = "sensirion_uart_open"
  /\ last.cmds = <<"sensirion_uart_open">>
  /\ ~sps30.uart_open /\ ~sps30.initialized

\* C28: an initialize() that opens the UART and fails at the probe
\* raises InitializationError without closing the UART and leaves the sensor
\* with _uart_open true, not initialized and measurement not started.
C28_ProbeFailureLeavesUninitialized ==
  (last.op = "SPS30.initialize" /\ last.raised.operation = "sps30_probe")
    => /\ last.raised.kind = "InitializationError"
       /\ ~Issued("sensirion_uart_close")
       /\ sps30.uart_open /\ ~sps30.initialized /\ ~sps30.measurement_started

\* C29: after an initialize() that failed, in whatever state it was called,
\* the SPS30 is not Ready and a following read() raises ReadError without
\* issuing the read-measurement command.
C29_FailedInitializeNotOperational ==
  [][(last.op = "SPS30.initialize" /\ last.raised # NoErr /\ last'.op = "SPS30.read")
       => /\ ~sps30.initialized
          /\ last'.raised.kind = "ReadError"
          /\ last'.cmds = <<>>]_vars

\* C30: when STC31CSensor.initialize is called on a sensor not initialized
\* and one of its steps fails, the commands of the earlier steps have been
\* issued and nothing is undone, the object is unchanged (_initialized
\* false), and a following read() raises ReadError without a command;
\* _initialized becomes true only when every step succeeded.
C30_Stc31cInitializeAllOrNothing ==
  [][/\ (last'.op = "STC31C.initialize" /\ ~stc31c.initialized)
          => /\ last'.cmds # <<>>
             /\ IsPrefix(last'.cmds, Stc31cInitSteps(stc31c.enable_asc))
             /\ stc31c'.initialized <=> last'.raised = NoErr
             /\ last'.raised = NoErr => last'.cmds = Stc31cInitSteps(stc31c.enable_asc)
             /\ last'.raised # NoErr
                  => /\ stc31c' = stc31c
                     /\ last'.raised.operation = last'.cmds[Len(last'.cmds)]
     /\ (last.op = "STC31C.initialize" /\ last.raised # NoErr /\ ~stc31c.initialized
           /\ last'.op = "STC31C.read")
          => /\ last'.raised.kind = "ReadError"
             /\ last'.raised.reason = "Sensor not initialized"
             /\ last'.cmds = <<>>]_vars

\* C30 witness: the self-calibration step failed after the bus, address and
\* binary-gas steps; the sensor is not initialized.
C30_Witness ==
  /\ last.op = "STC31C.initialize"
  /\ last.raised.kind = "ReadError"
  /\ last.raised.operation = "stc3x_disable_automatic_self_calibration"
  /\ Len(last.cmds) = 4
  /\ ~stc31c.initialized

\* C31 as claimed: every failure of STC31CSensor.initialize is an
\* InitializationError that names the failed step.
C31_InitializeFailureIsInitializationError ==
  (last.op = "STC31C.initialize" /\ last.raised # NoErr)
    => /\ last.raised.kind = "InitializationError"
       /\ last.raised.operation = last.cmds[Len(last.cmds)]

\* C31 amended: every failure of STC31CSensor.initialize names the failed
\* step; a failed bus init or binary-gas configuration is an
\* InitializationError, a failed enable / disable of self-calibration (the
\* one selected by the construction flag) is a ReadError.
C31_InitializeFailureNamesStep ==
  (last.op = "STC31C.initialize" /\ last.raised # NoErr)
    => /\ last.raised.operation = last.cmds[Len(last.cmds)]
       /\ last.raised.sensor = "STC31-C"
       /\ last.raised.code # 0
       /\ last.raised.operation \in {"sensirion_i2c_hal_init", "stc3x_set_binary_gas"}
            => last.raised.kind = "InitializationError"
       /\ last.raised.operation \notin {"sensirion_i2c_hal_init", "stc3x_set_binary_gas"}
            => /\ last.raised.kind = "ReadError"
               /\ last.raised.operation =
                    (IF stc31c.enable_asc THEN "stc3x_enable_automatic_self_calibration"
                                          ELSE "stc3x_disable_automatic_self_calibration")

\* C31 witness: with self-calibration requested, the enable step failed and
\* initialize raised its ReadError.
C31_Witness ==
  /\ last.op = "STC31C.initialize"
  /\ stc31c.enable_asc
  /\ last.raised.kind = "ReadError"
  /\ last.raised.operation = "stc3x_enable_automatic_self_calibration"

\* the driver commands of STC31CSensor.read, in the order of its sub-steps
Stc31cReadSteps ==
  <<"stc3x_set_relative_humidity", "stc3x_set_temperature", "stc3x_measure_gas_concentration">>

\* C32: a read on an initialized STC31-C with both arguments present issues
\* set-humidity, set-temperature, measure-gas-concentration in this order;
\* the first that fails raises a ReadError naming it and ends the call; the
\* call returns a result only after all three succeeded.
C32_Stc31cReadSteps ==
  (last.op = "STC31C.read" /\ stc31c.initialized
     /\ ~ArgumentMissing(last.args.temperature, last.args.relative_humidity))
    => /\ last.cmds # <<>> /\ IsPrefix(last.cmds, Stc31cReadSteps)
       /\ last.raised = NoErr => last.cmds = Stc31cReadSteps
       /\ last.raised # NoErr
            => /\ last.raised.kind = "ReadError"
               /\ last.raised.operation = last.cmds[Len(last.cmds)]
               /\ last.raised.code # 0

\* C32 witness: the temperature sub-step failed after the humidity was
\* written; the measurement was not triggered.
C32_Witness ==
  /\ last.op = "STC31C.read" /\ stc31c.initialized /\ ~stc31c.sleeping
  /\ last.raised.kind = "ReadError"
  /\ last.raised.operation = "stc3x_set_temperature"
  /\ last.cmds = <<"stc3x_set_relative_humidity", "stc3x_set_temperature">>

\* C33: stop_measurement() with measurement inactive raises ReadError and
\* issues no command; with measurement active it issues the stop command and
\* clears _measurement_started exactly when the command succeeds, raising
\* ReadError and leaving it set when the command fails.  No other flag
\* changes.
C33_StopMeasurement ==
  [][last'.op = "SPS30.stop_measurement"
       => /\ ~sps30.measurement_started
               => /\ last'.raised.kind = "ReadError"
                  /\ last'.cmds = <<>>
                  /\ sps30' = sps30
          /\ sps30.measurement_started
               => /\ last'.cmds = <<"sps30_stop_measurement">>
                  /\ last'.raised = NoErr
                       => sps30' = [sps30 EXCEPT !.measurement_started = FALSE]
                  /\ last'.raised # NoErr
                       => (last'.raised.kind = "ReadError" /\ sps30' = sps30)]_vars

\* C33 witness: the stop command failed on a measuring sensor, which is
\* still measuring.
C33_Witness ==
  /\ last.op = "SPS30.stop_measurement"
  /\ last.raised.kind = "ReadError"
  /\ last.cmds = <<"sps30_stop_measurement">>
  /\ sps30.measurement_started

\* the Ready state with measurement inactive
ReadyIdle(s) == s.initialized /\ ~s.sleeping /\ ~s.measurement_started

\* C34 as claimed: with firmware major version 2 or higher, sleep() issues
\* the sleep command only from the Ready state with measurement inactive; in
\* any other state, an already sleeping sensor included, it raises ReadError
\* and issues no command.
C34_SleepOnlyFromReadyIdle ==
  [][(last'.op = "SPS30.sleep" /\ ~SleepUnsupported(sps30))
       => /\ Issued("sps30_sleep")' => ReadyIdle(sps30)
          /\ ~ReadyIdle(sps30)
               => (last'.raised.kind = "ReadError" /\ last'.cmds = <<>>)]_vars

\* C35: shutdown() with the SPS30 enabled calls stop_measurement exactly
\* when measurement is active, calls close in every case and after the stop,
\* also when the stop raised; it calls nothing else, issues no command
\* besides these two and leaves the STC31-C and the SHTC3 unchanged.
C35_ShutdownOrder ==
  [][(last'.op = "shutdown" /\ mgr.enable_sps30)
       => /\ Called("sps30", "stop_measurement")' <=> sps30.measurement_started
          /\ Called("sps30", "close")'
          /\ Called("sps30", "stop_measurement")'
               => CallIndex("sps30", "stop_measurement")' < CallIndex("sps30", "close")'
          /\ \A i \in 1..Len(last'.calls) :
               \/ last'.calls[i].s = "manager"
               \/ /\ last'.calls[i].s = "sps30"
                  /\ last'.calls[i].m \in {"stop_measurement", "close"}
          /\ \A i \in 1..Len(last'.cmds) :
               last'.cmds[i] \in {"sps30_stop_measurement", "sensirion_uart_close"}
          /\ stc31c' = stc31c
          /\ shtc3' = shtc3]_vars

\* C35 witness: all sensors enabled, the stop failed inside shutdown() and
\* the close command was issued after it; the other two sensors are still
\* initialized.
C35_Witness ==
  /\ last.op = "shutdown" /\ AllEnabled
  /\ last.cmds = <<"sps30_stop_measurement", "sensirion_uart_close">>
  /\ \E i \in 1..Len(last.calls) :
       last.calls[i].m = "stop_measurement" /\ last.calls[i].err # NoErr
  /\ sps30.measurement_started
  /\ stc31c.initialized /\ shtc3.initialized

\* the calls of initialize made by the constructor
InitCalls == {i \in 1..Len(last.calls) : last.calls[i].m = "initialize"}

\* C36: the constructor initializes the sensors one after another and stops
\* at the first failure: no initialize follows a failed one, none is called
\* on a disabled sensor, and none is called twice.
C36_InitStopsAtFirstFailure ==
  last.op = "SensorManager"
    => \A i \in InitCalls :
         /\ Enabled(last.calls[i].s)
         /\ last.calls[i].err # NoErr => \A j \in InitCalls : j <= i
         /\ \A j \in InitCalls : last.calls[j].s = last.calls[i].s => j = i

\* C36 witness: all three sensors enabled, the first initialize failed and
\* the other two sensors were never initialized.
C36_Witness ==
  /\ last.op = "SensorManager" /\ AllEnabled
  /\ \E i \in InitCalls : last.calls[i].s = "stc31c" /\ last.calls[i].err # NoErr
  /\ ~Called("shtc3", "initialize") /\ ~Called("sps30", "initialize")
  /\ ~shtc3.initialized /\ ~sps30.initialized

\* the keys of the sensors the manager has enabled
EnabledKeys == {k \in {"stc31c", "shtc3", "sps30"} : Enabled(k)}

C38_SleepWakeThenReadAll ==
  (last.op = "SensorManager" /\ mgr.state = "ok" /\ AllEnabled)
    => \A v \in Samples :
         LET r1 == sleep_all(mgr, World, AllOk)
             r2 == wake_up_all(mgr, r1.w, AllOk)
             r3 == read_all(mgr, r2.w, AllOk, v)
         IN /\ r1.raised = NoErr /\ r2.raised = NoErr
            /\ r3.raised = NoErr
            /\ r3.keys = {"stc31c", "shtc3", "sps30"}

\* C39 as claimed: the read-measurement command is never issued while the
\* UART of the SPS30 is marked closed (read() does not change the mark, so
\* the mark after the call is the mark before it).
C39_NoReadWhileUartClosed ==
  (last.op \in {"SPS30.read", "read_all"} /\ Issued("sps30_read_measurement"))
    => sps30.uart_open

\* C40: a read, stop_measurement, sleep, wake_up, start_manual_fan_cleaning
\* or close of the SPS30 that raises leaves _initialized, _uart_open,
\* _measurement_started and _sleeping as they were.
C40_FailedOperationKeepsFlags ==
  [][(/\ last'.op \in {"SPS30.read", "SPS30.stop_measurement", "SPS30.sleep", "SPS30.wake_up",
                       "SPS30.start_manual_fan_cleaning", "SPS30.close"}
      /\ last'.raised # NoErr)
       => /\ sps30'.initialized = sps30.initialized
          /\ sps30'.uart_open = sps30.uart_open
          /\ sps30'.measurement_started = sps30.measurement_started
          /\ sps30'.sleeping = sps30.sleeping]_vars

\* C40 witness: the wake-up command failed on a sleeping sensor, which is
\* still marked sleeping.
C40_Witness ==
  /\ last.op = "SPS30.wake_up"
  /\ last.raised.kind = "ReadError"
  /\ last.cmds = <<"sps30_wake_up">>
  /\ sps30.sleeping /\ sps30.initialized /\ ~sps30.measurement_started

====
